---- MODULE Spec2Model ----
(***************************************************************************)
(* Model of the two puzzle solvers of aoc_2019.                            *)
(*                                                                         *)
(*   day_6/day_6/day_6.py  class Map (add, connections, total_orbits,      *)
(*                         shortest_path) and parse_map                    *)
(*   day_1/day_1/day_1.py  fuel_requirement, additional_fuel_requirements, *)
(*                         full_fuel_requirement                           *)
(*   day_1/day_1/cli.py    main                                            *)
(*                                                                         *)
(* Spec      is the orbit map: one Map object, built by add / parse_map    *)
(*           and queried; shortest_path's while loop is taken one          *)
(*           iteration per step.                                           *)
(* FuelSpec  is day_1: the generator is taken one resumption per step.     *)
(***************************************************************************)
EXTENDS Integers, Sequences, FiniteSets, TLC

VARIABLES parents, children, sp, last, gen, cli

vars == <<parents, children, sp, last, gen, cli>>

-----------------------------------------------------------------------------
(* Bounds and input alphabets                                              *)

\* successful add calls on one Map
MaxEdges == 3

\* node names are Python strings: sequences of characters
COM == <<"C", "O", "M">>
NA == <<"A">>
NB == <<"B">>
ND == <<"D">>
Nodes == {COM, NA, NB, ND}

SepChar == ")"

-----------------------------------------------------------------------------
(* Python containers                                                       *)

\* {} : the empty dict
EmptyDict == [x \in {} |-> x]

\* d[k] = v
Put(d, k, v) == [x \in (DOMAIN d) \cup {k} |-> IF x = k THEN v ELSE d[x]]

\* defaultdict(list).__getitem__: the value read ...
DefaultGet(d, k) == IF k \in DOMAIN d THEN d[k] ELSE <<>>

\* ... and the dict left behind (a missing key is inserted with [])
DefaultTouch(d, k) == IF k \in DOMAIN d THEN d ELSE Put(d, k, <<>>)

\* x in list
InSeq(x, s) == \E i \in 1..Len(s) : s[i] = x

RECURSIVE Reverse(_)
Reverse(s) == IF s = <<>> THEN <<>> ELSE Append(Reverse(Tail(s)), Head(s))

-----------------------------------------------------------------------------
(* class Map                                                               *)

\* connections that forgets the parent
Connections_ChildrenOnly(P, Ch, node) == DefaultGet(Ch, node)

\* Map.connections: the returned list
Connections(P, Ch, node) ==
    (IF node \in DOMAIN P THEN <<P[node]>> ELSE <<>>) \o DefaultGet(Ch, node)

\* the record of the last call: how it ended ("running": it has not yet)
\* and what it returned
NoCall == [op |-> "init", a |-> COM, b |-> COM, kind |-> "ok",
           list |-> <<>>, depths |-> EmptyDict]

Called(op, a, b, kind, list, depths) ==
    [op |-> op, a |-> a, b |-> b, kind |-> kind, list |-> list, depths |-> depths]

\* no shortest_path call in progress
SpIdle == [pc |-> "idle", src |-> COM, dst |-> COM,
           paths |-> EmptyDict, to_visit |-> <<>>]

\* add without its assert: a second parent overwrites the first
AddTo_NoAssert(P, Ch, parent, child) ==
    [parents |-> Put(P, child, parent),
     children |-> Put(Ch, parent, Append(DefaultGet(Ch, parent), child)),
     kind |-> "ok"]

\* add that records the parent only
AddTo_ParentOnly(P, Ch, parent, child) ==
    IF child \in DOMAIN P
    THEN [parents |-> P, children |-> Ch, kind |-> "AssertionError"]
    ELSE [parents |-> Put(P, child, parent), children |-> Ch, kind |-> "ok"]

\* the result of Map.add on a map: the two dicts and how the call ended
AddTo(P, Ch, parent, child) ==
    IF child \in DOMAIN P
    THEN [parents |-> P, children |-> Ch, kind |-> "AssertionError"]
    ELSE [parents |-> Put(P, child, parent),
          children |-> Put(Ch, parent, Append(DefaultGet(Ch, parent), child)),
          kind |-> "ok"]

Add(parent, child) ==
    /\ sp.pc = "idle"
    /\ Cardinality(DOMAIN parents) < MaxEdges \/ child \in DOMAIN parents
    /\ LET r == AddTo(parents, children, parent, child) IN
         /\ parents' = r.parents
         /\ children' = r.children
         /\ last' = Called("add", parent, child, r.kind, <<>>, EmptyDict)
    /\ UNCHANGED <<sp, gen, cli>>

ConnectionsCall(node) ==
    /\ sp.pc = "idle"
    /\ children' = DefaultTouch(children, node)
    /\ last' = Called("connections", node, node, "ok",
                      Connections(parents, children, node), EmptyDict)
    /\ UNCHANGED <<parents, sp, gen, cli>>

-----------------------------------------------------------------------------
(* Map.total_orbits                                                        *)

\* result[self.parents[current]] + 1, without the increment
OrbitDepth_NoIncrement(result, P, current) == result[P[current]]

\* result[self.parents[current]] + 1
OrbitDepth(result, P, current) == result[P[current]] + 1

\* the while loop, from a frame [result, to_visit, children, kind]
RECURSIVE TotalOrbitsLoop(_, _)
TotalOrbitsLoop(P, fr) ==
    IF fr.to_visit = <<>> THEN fr
    ELSE LET n == Len(fr.to_visit)
             current == fr.to_visit[n]
             rest == SubSeq(fr.to_visit, 1, n - 1)
         IN  IF current \in DOMAIN fr.result
             THEN TotalOrbitsLoop(P, [fr EXCEPT !.to_visit = rest])
             ELSE IF current \notin DOMAIN P \/ P[current] \notin DOMAIN fr.result
             THEN [fr EXCEPT !.to_visit = rest, !.kind = "KeyError"]
             ELSE TotalOrbitsLoop(P,
                    [result |-> Put(fr.result, current, OrbitDepth(fr.result, P, current)),
                     to_visit |-> rest \o DefaultGet(fr.children, current),
                     children |-> DefaultTouch(fr.children, current),
                     kind |-> "ok"])

\* total_orbits counting the root as one orbit
TotalOrbits_RootOne(P, Ch, root) ==
    TotalOrbitsLoop(P, [result |-> Put(EmptyDict, root, 1),
                        to_visit |-> DefaultGet(Ch, root),
                        children |-> DefaultTouch(Ch, root),
                        kind |-> "ok"])

TotalOrbits(P, Ch, root) ==
    TotalOrbitsLoop(P, [result |-> Put(EmptyDict, root, 0),
                        to_visit |-> DefaultGet(Ch, root),
                        children |-> DefaultTouch(Ch, root),
                        kind |-> "ok"])

TotalOrbitsCall(root) ==
    /\ sp.pc = "idle"
    /\ LET r == TotalOrbits(parents, children, root) IN
         /\ children' = r.children
         /\ last' = Called("total_orbits", root, root, r.kind, <<>>, r.result)
    /\ UNCHANGED <<parents, sp, gen, cli>>

-----------------------------------------------------------------------------
(* Map.shortest_path                                                       *)

\* the for loop of visit over connections(node), on a frame
\* [paths, to_visit]
RECURSIVE VisitOthers(_, _, _)
VisitOthers(fr, others, connection_path) ==
    IF others = <<>> THEN fr
    ELSE LET other == Head(others) IN
         IF other \in DOMAIN fr.paths
         THEN VisitOthers(fr, Tail(others), connection_path)
         ELSE VisitOthers([paths |-> Put(fr.paths, other, connection_path),
                           to_visit |-> Append(fr.to_visit, other)],
                          Tail(others), connection_path)

\* the nested function visit; kind is "AssertionError" when its assert fails
Visit(P, Ch, fr, node) ==
    IF node \notin DOMAIN fr.paths
    THEN [paths |-> fr.paths, to_visit |-> fr.to_visit, kind |-> "AssertionError"]
    ELSE LET r == VisitOthers(fr, Connections(P, Ch, node),
                              Append(fr.paths[node], node))
         IN  [paths |-> r.paths, to_visit |-> r.to_visit, kind |-> "ok"]

\* for node in self.connections(src): visit(node)
RECURSIVE VisitAll(_, _, _, _)
VisitAll(P, Ch, fr, nodes) ==
    IF nodes = <<>> \/ fr.kind # "ok" THEN fr
    ELSE VisitAll(P, DefaultTouch(Ch, Head(nodes)),
                  Visit(P, Ch, fr, Head(nodes)), Tail(nodes))

\* the keys that the reads of self.children insert while visiting nodes
RECURSIVE TouchAll(_, _)
TouchAll(Ch, nodes) ==
    IF nodes = <<>> THEN Ch ELSE TouchAll(DefaultTouch(Ch, Head(nodes)), Tail(nodes))

\* paths = {src: []}; paths.update({node: [] for node in connections(src)})
RECURSIVE InitialPaths(_, _)
InitialPaths(paths, nodes) ==
    IF nodes = <<>> THEN paths
    ELSE InitialPaths(Put(paths, Head(nodes), <<>>), Tail(nodes))

\* lines 34-49: everything before the while loop
ShortestPathBegin(P, Ch, src, dst) ==
    LET conns == Connections(P, Ch, src)
        fr0 == [paths |-> InitialPaths(Put(EmptyDict, src, <<>>), conns),
                to_visit |-> <<>>, kind |-> "ok"]
        fr == VisitAll(P, DefaultTouch(Ch, src), fr0, conns)
    IN  [pc |-> IF fr.kind = "ok" THEN "loop" ELSE "done",
         src |-> src, dst |-> dst, paths |-> fr.paths, to_visit |-> fr.to_visit,
         kind |-> fr.kind, list |-> <<>>,
         children |-> TouchAll(DefaultTouch(Ch, src), conns)]

\* the while loop with the pop guarded by "if to_visit": an empty queue
\* is polled for ever
ShortestPathStep_Spin(P, fr) ==
    IF InSeq(fr.dst, fr.to_visit)
    THEN [fr EXCEPT !.pc = "done", !.list = fr.paths[fr.dst]]
    ELSE IF fr.to_visit = <<>>
    THEN fr
    ELSE LET current == Head(fr.to_visit)
             v == Visit(P, fr.children,
                        [paths |-> fr.paths, to_visit |-> Tail(fr.to_visit)], current)
         IN  [fr EXCEPT !.pc = IF v.kind = "ok" THEN "loop" ELSE "done",
                        !.paths = v.paths, !.to_visit = v.to_visit,
                        !.kind = v.kind,
                        !.children = DefaultTouch(fr.children, current)]

\* one evaluation of the while condition and, if it holds, one iteration
ShortestPathStep(P, fr) ==
    IF InSeq(fr.dst, fr.to_visit)
    THEN IF fr.dst \in DOMAIN fr.paths
         THEN [fr EXCEPT !.pc = "done", !.list = fr.paths[fr.dst]]
         ELSE [fr EXCEPT !.pc = "done", !.kind = "KeyError"]
    ELSE IF fr.to_visit = <<>>
    THEN [fr EXCEPT !.pc = "done", !.kind = "IndexError"]
    ELSE LET current == Head(fr.to_visit)
             v == Visit(P, fr.children,
                        [paths |-> fr.paths, to_visit |-> Tail(fr.to_visit)], current)
         IN  [fr EXCEPT !.pc = IF v.kind = "ok" THEN "loop" ELSE "done",
                        !.paths = v.paths, !.to_visit = v.to_visit,
                        !.kind = v.kind,
                        !.children = DefaultTouch(fr.children, current)]

\* the whole call, run to its end
RECURSIVE ShortestPathRun(_, _)
ShortestPathRun(P, fr) ==
    IF fr.pc = "done" THEN fr ELSE ShortestPathRun(P, ShortestPathStep(P, fr))

ShortestPath(P, Ch, src, dst) ==
    ShortestPathRun(P, ShortestPathBegin(P, Ch, src, dst))

\* the frame of the call in progress, as kept in sp
Frame(fr) == [pc |-> fr.pc, src |-> fr.src, dst |-> fr.dst,
              paths |-> fr.paths, to_visit |-> fr.to_visit]

\* sp and last after the call reached frame fr
Advance(fr) ==
    /\ children' = fr.children
    /\ IF fr.pc = "done"
       THEN /\ sp' = SpIdle
            /\ last' = Called("shortest_path", fr.src, fr.dst, fr.kind,
                              fr.list, EmptyDict)
       ELSE /\ sp' = Frame(fr)
            /\ last' = Called("shortest_path", fr.src, fr.dst, "running",
                              <<>>, EmptyDict)
    /\ UNCHANGED <<parents, gen, cli>>

ShortestPathCall(src, dst) ==
    /\ sp.pc = "idle"
    /\ Advance(ShortestPathBegin(parents, children, src, dst))

ShortestPathLoop ==
    /\ sp.pc = "loop"
    /\ Advance(ShortestPathStep(parents,
                 [pc |-> "loop", src |-> sp.src, dst |-> sp.dst,
                  paths |-> sp.paths, to_visit |-> sp.to_visit,
                  kind |-> "ok", list |-> <<>>, children |-> children]))

-----------------------------------------------------------------------------
(* parse_map                                                               *)

\* str.split(SepChar) on a string given as its sequence of characters
RECURSIVE Split(_)
Split(str) ==
    IF \A i \in 1..Len(str) : str[i] # SepChar THEN <<str>>
    ELSE LET i == CHOOSE k \in 1..Len(str) :
                    /\ str[k] = SepChar
                    /\ \A j \in 1..(k - 1) : str[j] # SepChar
         IN  <<SubSeq(str, 1, i - 1)>> \o Split(SubSeq(str, i + 1, Len(str)))

\* the for loop of parse_map over the lines still to read
RECURSIVE ParseLines(_, _)
ParseLines(m, orbits) ==
    IF orbits = <<>> \/ m.kind # "ok" THEN m
    ELSE LET parts == Split(Head(orbits)) IN
         IF Len(parts) # 2
         THEN [m EXCEPT !.kind = "ValueError"]
         ELSE ParseLines(AddTo(m.parents, m.children, parts[1], parts[2]),
                         Tail(orbits))

ParseMap(orbits) ==
    ParseLines([parents |-> EmptyDict, children |-> EmptyDict, kind |-> "ok"],
               orbits)

\* "PARENT)CHILD"
OrbitLine(parent, child) == parent \o <<SepChar>> \o child

\* the lines given to parse_map: every edge over Nodes, a line without
\* separator and a line with two
Lines == {OrbitLine(p, c) : p, c \in Nodes}
           \cup {NA, NA \o <<SepChar>> \o NB \o <<SepChar>> \o ND}

SeqsUpTo(S, n) == UNION {[1..k -> S] : k \in 0..n}

\* the program builds its Map with parse_map; a failed call returns none
ParseMapCall ==
    /\ sp.pc = "idle"
    /\ parents = EmptyDict /\ children = EmptyDict
    /\ \E orbits \in SeqsUpTo(Lines, MaxEdges) :
         LET m == ParseMap(orbits) IN
           /\ parents' = IF m.kind = "ok" THEN m.parents ELSE parents
           /\ children' = IF m.kind = "ok" THEN m.children ELSE children
           /\ last' = Called("parse_map", COM, COM, m.kind, <<>>, EmptyDict)
    /\ UNCHANGED <<sp, gen, cli>>

-----------------------------------------------------------------------------
(* day_1                                                                   *)

\* the largest fuel_mass given to the generator, and the most negative
MaxMass == 700
MaxNegMass == 12
\* command line: number of arguments and the masses they are taken from
MaxArgs == 2
MassArgs == {0, 2, 12, 14, 33, 100, 1969}

fuel_requirement(mass) == (mass \div 3) - 2

RECURSIVE SumSeq(_)
SumSeq(s) == IF s = <<>> THEN 0 ELSE Head(s) + SumSeq(Tail(s))

\* no generator object / no command run
GenIdle == [pc |-> "idle", fuel_mass |-> 0, step |-> 0, yielded |-> <<>>]
CliIdle == [ran |-> FALSE, mass |-> <<>>, output |-> 0]

\* calling additional_fuel_requirements only creates the generator
GenCreated(fuel_mass) ==
    [pc |-> "start", fuel_mass |-> fuel_mass, step |-> 0, yielded |-> <<>>]

\* the generator with "while step >= 0"
GenResume_NonNegative(g) ==
    LET step == IF g.pc = "start" THEN fuel_requirement(g.fuel_mass)
                ELSE fuel_requirement(g.step)
    IN  IF step >= 0
        THEN [g EXCEPT !.pc = "suspended", !.step = step,
                       !.yielded = Append(g.yielded, step)]
        ELSE [g EXCEPT !.pc = "done", !.step = step]

\* one resumption of the generator: up to the next yield or to its end
GenResume(g) ==
    LET step == IF g.pc = "start" THEN fuel_requirement(g.fuel_mass)
                ELSE fuel_requirement(g.step)
    IN  IF step > 0
        THEN [g EXCEPT !.pc = "suspended", !.step = step,
                       !.yielded = Append(g.yielded, step)]
        ELSE [g EXCEPT !.pc = "done", !.step = step]

\* list(additional_fuel_requirements(fuel_mass))
RECURSIVE Exhaust(_)
Exhaust(g) == IF g.pc = "done" THEN g.yielded ELSE Exhaust(GenResume(g))

additional_fuel_requirements(fuel_mass) == Exhaust(GenCreated(fuel_mass))

full_fuel_requirement(mass) ==
    LET base_fuel == fuel_requirement(mass)
    IN  base_fuel + SumSeq(additional_fuel_requirements(base_fuel))

\* what cli.main echoes
MainOutput(mass) == SumSeq([i \in 1..Len(mass) |-> fuel_requirement(mass[i])])

\* a consumer (list, sum) creates a generator and runs it to its end
GenCreate(fuel_mass) ==
    /\ ~cli.ran
    /\ gen.pc \in {"idle", "done"}
    /\ gen' = GenCreated(fuel_mass)
    /\ UNCHANGED <<parents, children, sp, last, cli>>

GenNext ==
    /\ gen.pc \in {"start", "suspended"}
    /\ gen' = GenResume(gen)
    /\ UNCHANGED <<parents, children, sp, last, cli>>

\* one run of the console script
Main(mass) ==
    /\ ~cli.ran /\ gen.pc = "idle"
    /\ cli' = [ran |-> TRUE, mass |-> mass, output |-> MainOutput(mass)]
    /\ UNCHANGED <<parents, children, sp, last, gen>>

-----------------------------------------------------------------------------

Init ==
    /\ parents = EmptyDict
    /\ children = EmptyDict
    /\ sp = SpIdle
    /\ last = NoCall
    /\ gen = GenIdle
    /\ cli = CliIdle

Next ==
    \/ \E p, c \in Nodes : Add(p, c)
    \/ \E n \in Nodes : ConnectionsCall(n)
    \/ \E root \in Nodes : TotalOrbitsCall(root)
    \/ \E src, dst \in Nodes : ShortestPathCall(src, dst)
    \/ ShortestPathLoop
    \/ ParseMapCall

Spec == Init /\ [][Next]_vars

FuelNext ==
    \/ \E fuel_mass \in (0 - MaxNegMass)..MaxMass : GenCreate(fuel_mass)
    \/ GenNext
    \/ \E mass \in SeqsUpTo(MassArgs, MaxArgs) : Main(mass)

FuelSpec == Init /\ [][FuelNext]_vars

\* the consumer of a generator keeps resuming it
FairFuelSpec == FuelSpec /\ WF_vars(GenNext)

-----------------------------------------------------------------------------
(* The orbit map as a graph: what the properties are stated against        *)

\* the nodes that occur in an edge
MapNodes(P) == (DOMAIN P) \cup {P[c] : c \in DOMAIN P}

\* the nodes met by following at most k parent edges up from n
RECURSIVE AncestorsWithin(_, _, _)
AncestorsWithin(P, n, k) ==
    IF k = 0 \/ n \notin DOMAIN P THEN {}
    ELSE {P[n]} \cup AncestorsWithin(P, P[n], k - 1)

Ancestors(P, n) == AncestorsWithin(P, n, Cardinality(DOMAIN P))

Descendants(P, n) == {d \in DOMAIN P : n \in Ancestors(P, d)}

\* no node is its own ancestor
IsForest(P) == \A n \in DOMAIN P : n \notin Ancestors(P, n)

\* in a forest: n, its parent, its grandparent, ... up to its root
RECURSIVE Chain(_, _)
Chain(P, n) == IF n \in DOMAIN P THEN <<n>> \o Chain(P, P[n]) ELSE <<n>>

IndexOf(x, s) == CHOOSE i \in 1..Len(s) : s[i] = x

\* in a forest: the number of edges from n up to its ancestor root
Depth(P, n, root) == IndexOf(root, Chain(P, n)) - 1

Adjacent(P, a, b) ==
    \/ a \in DOMAIN P /\ P[a] = b
    \/ b \in DOMAIN P /\ P[b] = a

\* the nodes joined to the nodes of S by a chain of parent/child edges
RECURSIVE Joined(_, _)
Joined(P, S) ==
    LET T == S \cup {P[n] : n \in S \cap DOMAIN P}
               \cup {c \in DOMAIN P : P[c] \in S}
    IN  IF T = S THEN S ELSE Joined(P, T)

Reachable(P, src, dst) == dst \in Joined(P, {src})

\* in a forest, for joined src and dst: the path from src up to their
\* first common ancestor and down to dst, without src and dst
TreePath(P, src, dst) ==
    LET up == Chain(P, src)
        down == Chain(P, dst)
        i == CHOOSE k \in 1..Len(up) :
                 /\ InSeq(up[k], down)
                 /\ \A j \in 1..(k - 1) : ~InSeq(up[j], down)
        j == IndexOf(up[i], down)
        full == SubSeq(up, 1, i) \o Reverse(SubSeq(down, 1, j - 1))
    IN  SubSeq(full, 2, Len(full) - 1)

\* sum(d.values())
RECURSIVE SumValues(_)
SumValues(d) ==
    IF DOMAIN d = {} THEN 0
    ELSE LET k == CHOOSE x \in DOMAIN d : TRUE
         IN  d[k] + SumValues([x \in (DOMAIN d) \ {k} |-> d[x]])

\* the (ancestor, descendant) pairs of the map
OrbitPairs(P) == {<<a, d>> \in MapNodes(P) \X MapNodes(P) : a \in Ancestors(P, d)}

SpReturned == last.op = "shortest_path" /\ last.kind # "running"

-----------------------------------------------------------------------------
(* Properties                                                              *)

\* C1: on a forest, for distinct src and dst joined by a chain of edges,
\* shortest_path(src, dst) returns the intermediate nodes of the path from
\* src to dst in order, the empty list when one edge joins them.
C1_ShortestPathIsTreePath ==
    (/\ SpReturned
     /\ IsForest(parents)
     /\ last.a # last.b
     /\ Reachable(parents, last.a, last.b))
    => (last.kind = "ok" /\ last.list = TreePath(parents, last.a, last.b))

\* C2: on a forest, total_orbits(root) returns a dict whose keys are root
\* and the nodes below root, each with its number of edges up to root:
\* 0 for root, the parent's value plus 1 for the others.
C2_TotalOrbitsDepths ==
    (last.op = "total_orbits" /\ IsForest(parents))
    => /\ last.kind = "ok"
       /\ DOMAIN last.depths = {last.a} \cup Descendants(parents, last.a)
       /\ last.depths[last.a] = 0
       /\ \A n \in (DOMAIN last.depths) \ {last.a} :
            /\ last.depths[n] = Depth(parents, n, last.a)
            /\ last.depths[n] = last.depths[parents[n]] + 1

C2_Witness ==
    /\ last.op = "total_orbits" /\ IsForest(parents)
    /\ last.a \in DOMAIN parents
    /\ \E n \in DOMAIN last.depths : last.depths[n] = 2

\* every node of the map is COM or below COM
RootedAtCOM(P) == \A n \in MapNodes(P) : n = COM \/ n \in Descendants(P, COM)

\* C3 as stated: on every forest the values of total_orbits() add up to the
\* number of (ancestor, descendant) pairs of the map.
C3_SumIsAllOrbits ==
    (last.op = "total_orbits" /\ last.a = COM /\ IsForest(parents))
    => SumValues(last.depths) = Cardinality(OrbitPairs(parents))

\* C3 amended: on a forest all of whose nodes are COM or below COM, the
\* values of total_orbits() add up to the number of (ancestor, descendant)
\* pairs of the map.
C3_SumIsAllOrbitsUnderCOM ==
    (last.op = "total_orbits" /\ last.a = COM /\ IsForest(parents)
        /\ RootedAtCOM(parents))
    => SumValues(last.depths) = Cardinality(OrbitPairs(parents))

C3_Witness ==
    /\ last.op = "total_orbits" /\ last.a = COM /\ IsForest(parents)
    /\ RootedAtCOM(parents)
    /\ Cardinality(DOMAIN parents) = 3
    /\ SumValues(last.depths) > 3

\* the places where n is listed as a child
ChildSlots(Ch, n) ==
    {<<p, i>> \in (DOMAIN Ch) \X (1..Cardinality(Nodes)) :
        i <= Len(Ch[p]) /\ Ch[p][i] = n}

\* every node is listed as a child at most once, under its recorded parent
OneParent ==
    \A n \in Nodes :
        /\ Cardinality(ChildSlots(children, n)) <= 1
        /\ \A s \in ChildSlots(children, n) :
             n \in DOMAIN parents /\ parents[n] = s[1]
        /\ n \in DOMAIN parents => ChildSlots(children, n) # {}

\* add called on a child that has a parent fails and changes nothing
AddRejected ==
    (last'.op = "add" /\ last'.b \in DOMAIN parents)
    => (last'.kind = "AssertionError" /\ parents' = parents /\ children' = children)

\* a recorded parent stays
ParentKept ==
    \A c \in DOMAIN parents : c \in DOMAIN parents' /\ parents'[c] = parents[c]

\* C4: add(parent, child) for a child that has a recorded parent fails, also
\* with the recorded parent, and leaves parents and children as they were;
\* no recorded parent is ever overwritten and no node has two parents.
C4_AddNeverOverwrites == [][AddRejected /\ ParentKept]_vars /\ []OneParent

C4_Witness ==
    /\ last.op = "add" /\ last.kind = "AssertionError"
    /\ parents[last.b] = last.a
    /\ Cardinality(DOMAIN parents) >= 2

\* a shortest_path call whose dst is not joined to its src
UnreachableCall ==
    last.op = "shortest_path" /\ ~Reachable(parents, last.a, last.b)

\* what the while loop has left to do: the queue, and the nodes that can
\* still enter it
LoopMeasure(frame) ==
    Len(frame.to_visit)
        + Cardinality((MapNodes(parents) \cup {frame.src}) \ DOMAIN frame.paths)

\* an iteration that does not end the call decreases the measure
LoopDecreases ==
    (UnreachableCall /\ sp.pc = "loop" /\ sp'.pc = "loop")
    => LoopMeasure(sp') < LoopMeasure(sp)

\* the loop never polls without change: an iteration pops, or ends the call
LoopMoves ==
    (UnreachableCall /\ sp.pc = "loop") => ENABLED <<ShortestPathLoop>>_vars

\* C5: when dst is not joined to src, shortest_path(src, dst) ends (every
\* iteration of its loop moves on and decreases a natural number), and it
\* ends with an error, never with a path.
C5_UnreachableFails ==
    /\ [](UnreachableCall /\ SpReturned => last.kind = "IndexError")
    /\ []LoopMoves
    /\ [][LoopDecreases]_vars

C5_Witness ==
    /\ SpReturned /\ last.kind = "IndexError"
    /\ ~Reachable(parents, last.a, last.b)
    /\ last.b \in MapNodes(parents)
    /\ \E n \in Joined(parents, {last.a}) :
          n # last.a /\ ~Adjacent(parents, last.a, n)

ParentThenChildren(node) ==
    (IF node \in DOMAIN parents THEN <<parents[node]>> ELSE <<>>)
        \o (IF node \in DOMAIN children THEN children[node] ELSE <<>>)

\* C7: once add(parent, child) succeeded, connections(child) includes parent
\* and connections(parent) includes child, whatever is called afterwards;
\* connections(node) is the recorded parent followed by the recorded children.
C7_ConnectionsBothWays ==
    /\ \A c \in DOMAIN parents :
         /\ InSeq(parents[c], Connections(parents, children, c))
         /\ InSeq(c, Connections(parents, children, parents[c]))
    /\ last.op = "connections" => last.list = ParentThenChildren(last.a)

C7_Witness ==
    /\ last.op = "connections"
    /\ last.a \in DOMAIN parents
    /\ Len(last.list) = 3

\* C8: the day_1 command prints the sum of full_fuel_requirement over its
\* arguments, 0 for none.
C8_MainPrintsFullFuel ==
    cli.ran => cli.output =
        SumSeq([i \in 1..Len(cli.mass) |-> full_fuel_requirement(cli.mass[i])])

\* what a generator has yielded so far
YieldsInOrder ==
    \A i \in 1..Len(gen.yielded) :
        /\ gen.yielded[i] > 0
        /\ gen.yielded[i] =
             fuel_requirement(IF i = 1 THEN gen.fuel_mass ELSE gen.yielded[i - 1])
        /\ i > 1 => gen.yielded[i] < gen.yielded[i - 1]

\* an exhausted generator stopped at the first value that is not positive
YieldsComplete ==
    gen.pc = "done" =>
        /\ (gen.yielded = <<>>) <=> (fuel_requirement(gen.fuel_mass) <= 0)
        /\ gen.yielded # <<>> =>
             fuel_requirement(gen.yielded[Len(gen.yielded)]) <= 0

\* C9: additional_fuel_requirements(fuel_mass) ends; what it yields is
\* positive, strictly decreasing, each value fuel_requirement of the one
\* before (the first of fuel_mass), and nothing exactly when
\* fuel_requirement(fuel_mass) <= 0.
C9_GeneratorEnds ==
    /\ [](YieldsInOrder /\ YieldsComplete)
    /\ (gen.pc \in {"start", "suspended"}) ~> (gen.pc = "done")

C9_Witness ==
    /\ gen.pc = "done"
    /\ Len(gen.yielded) = 4
    /\ gen.fuel_mass = 654

\* C10: connections, total_orbits and shortest_path leave parents and
\* children, keys included, as they were.
C10_QueriesReadOnly ==
    [][last'.op \in {"connections", "total_orbits", "shortest_path"}
         => (parents' = parents /\ children' = children)]_vars

====
